---------------------------- MODULE Spec2Model ----------------------------
(***************************************************************************)
(* Model of atpy/data/cache/influxdb_cache.py: ranges and update_to_latest *)
(* (the fetch plan, the provider thread, the bounded queue and the drain   *)
(* loop with its try/finally), and of IQFeedNewsListener of                *)
(* atpy/data/iqfeed/iqfeed_news_provider.py (__enter__, __exit__ and the   *)
(* produce thread with its minibatch and batch buffers).                   *)
(*                                                                         *)
(* Time: an instant is a number of ticks since an epoch, in UTC; a day has *)
(* TicksPerDay ticks. A relativedelta is a number of ticks. A begin period *)
(* is the record [date, tick, tz]: the wall-clock date, the tick within    *)
(* the day (0 for datetime.min.time()) and the zone the code stamps on it. *)
(***************************************************************************)
EXTENDS Integers, Sequences, FiniteSets, TLC

VARIABLES
    store,              \* bars in the database: series key -> <<first, last>>
    arg_new_symbols,    \* the new_symbols set as the caller passed it
    new_symbols,        \* the same set object, as update_to_latest leaves it
    now,                \* datetime.utcnow() as line 53 reads it
    now_cold,           \* datetime.utcnow() as line 63 reads it, later
    time_delta_back,    \* the lookback horizon
    skip_if_older_than, \* <<>> for None, <<T>> for a threshold T
    filters,            \* the fetch plan, a sequence of BarsFilter
    pc,                 \* where update_to_latest is: in the drain loop,
                        \* "drain" at q.get, "got" with an item taken,
                        \* "report" after its write_points call
    in_try,             \* TRUE once the try block of line 73 is entered
    q,                  \* queue.Queue(maxsize): items oldest first
    ppc,                \* where the provider thread is
    pidx,               \* number of plan entries the provider has put
    extra,              \* items the provider has put after the sentinel
    sent,               \* every item put on the queue, in order
    drained,            \* every item q.get returned, in order
    i,                  \* enumerate() index of the item in hand, or of the
                        \* next one at q.get
    written,            \* calls of client.write_points, in order
    logged,             \* "Cached i queries" reports, in order
    closed,             \* calls of client.close()
    \* IQFeedNewsListener
    minibatch,          \* self.minibatch: <<>> for None, <<N>> for a size N
    attach_text,        \* self.attach_text
    column_mode,        \* self.column_mode
    mixed,              \* TRUE when the feed's records differ in their fields
    conn,               \* self.conn: "none", "connected" or "disconnected"
    is_running,         \* self.is_running
    xpc,                \* where the caller of the listener is
    npc,                \* where the produce thread is: "next" at line 205,
                        \* "call" before and "wait" inside the request of
                        \* line 209, "records" at line 214, "story" before
                        \* and "story_wait" inside the request of line
                        \* 220, "append" at line 222, "flush" once a
                        \* minibatch is handed to the listeners, "emitted"
                        \* once the batch is
    taken,              \* filters taken from self.filter_provider so far
    headlines,          \* the headlines of the request in progress
    hidx,               \* headlines of it gone through so far; the one
                        \* in hand, if any, is the next
    ids,                \* story ids kept in the request in progress
    titles,             \* headlines kept in the request in progress
    heap,               \* the buffer objects created so far, by reference
    processed_data,     \* reference of the request's buffer, 0 for None
    current_minibatch,  \* reference of self.current_minibatch, 0 for None
    events,             \* what self.listeners was called with, in order
    kept,               \* records of the request in progress that were kept
    late_call           \* a provider call was made on a disconnected connection

cacheVars == <<store, arg_new_symbols, new_symbols, now, now_cold,
               time_delta_back,
               skip_if_older_than, filters, pc, in_try, q, ppc, pidx, extra,
               sent, drained, i, written, logged, closed>>

newsVars == <<minibatch, attach_text, column_mode, mixed, conn, is_running,
              xpc, npc, taken, headlines, hidx, ids, titles, heap,
              processed_data, current_minibatch, events, kept, late_call>>

vars == <<cacheVars, newsVars>>

planVars == <<store, arg_new_symbols, new_symbols, now, now_cold,
              time_delta_back,
              skip_if_older_than, filters>>

pipeVars == <<q, ppc, pidx, extra, sent, drained, i, written, logged, closed>>

---------------------------------------------------------------------------
(* Bounds of the model *)

TicksPerDay == 2
MaxTime == 3
MaxDelta == 2
MaxExtra == 1
\* queue.Queue(maxsize=100) of line 69, scaled down so that a plan of three
\* requests fills it
Maxsize == 2

(* Program constants *)

ReportEvery == 20

---------------------------------------------------------------------------
(* Data *)

Keys == { <<"AAPL", 60, "s">>, <<"MSFT", 60, "s">>, <<"AAPL", 1, "d">> }

Times == 0 .. MaxTime

Deltas == 0 .. MaxDelta

None == <<>>

Eastern == "US/Eastern"

\* t.date() of a UTC datetime
Date(t) == t \div TicksPerDay

\* datetime.combine(d, datetime.min.time()).replace(tzinfo=zone)
Midnight(d, zone) == [date |-> d, tick |-> 0, tz |-> zone]

BarsFilter(ticker, interval_len, interval_type, bgn_prd) ==
    [ticker |-> ticker, interval_len |-> interval_len,
     interval_type |-> interval_type, bgn_prd |-> bgn_prd]

\* the series key a request is for
KeyOf(f) == <<f.ticker, f.interval_len, f.interval_type>>

\* ranges(client): key -> (first, last) for the keys having both
ranges(db) == [k \in DOMAIN db |-> <<db[k][1], db[k][2]>>]

\* the orders in which a set may be iterated
Orders(S) == { s \in [1 .. Cardinality(S) -> S] :
                 \A a, b \in 1 .. Cardinality(S) : s[a] = s[b] => a = b }

---------------------------------------------------------------------------
(* The fetch plan, lines 48-65 *)

\* line 53: now - skip_if_older_than, an instant (astimezone keeps it)
Threshold(n, skip) == n - skip[1]

\* line 59
Fresh(time, n, skip) == skip = None \/ time > Threshold(n, skip)

\* line 60
ContinuationBgnPrd(time) == Midnight(Date(time), Eastern)

\* a cold start that subtracts the lookback from now before cutting to a day
ColdStartFromNow(n, delta) == Midnight(Date(n - delta), Eastern)

\* line 63: the date of now, less the lookback, cut to its date again
ColdStartBgnPrd(n, delta) ==
    Midnight(Date(Date(n) * TicksPerDay - delta), Eastern)

\* a scan that leaves the known key in the desired set
KeepKnown(ns, key) == ns

\* lines 56-57
RemoveKnown(ns, key) == IF key \in ns THEN ns \ {key} ELSE ns

\* a scan that reads the first timestamp of the range
FirstOf(range) == range[1]

\* line 55: the last timestamp of a range
LastOf(range) == range[2]

\* lines 55-61, over the store's items in the order `order`
RECURSIVE ScanRanges(_, _, _, _, _, _)
ScanRanges(order, rng, ns, fs, n, skip) ==
    IF order = <<>> THEN [ns |-> ns, fs |-> fs]
    ELSE LET key == Head(order)
             time == LastOf(rng[key])
             fs2 == IF Fresh(time, n, skip)
                    THEN Append(fs, BarsFilter(key[1], key[2], key[3],
                                               ContinuationBgnPrd(time)))
                    ELSE fs
         IN ScanRanges(Tail(order), rng, RemoveKnown(ns, key), fs2, n, skip)

\* lines 63-65, over the remaining new symbols in the order `order`
RECURSIVE ScanNew(_, _, _)
ScanNew(order, fs, bgn_prd) ==
    IF order = <<>> THEN fs
    ELSE LET key == Head(order)
         IN ScanNew(Tail(order),
                    Append(fs, BarsFilter(key[1], key[2], key[3], bgn_prd)),
                    bgn_prd)

---------------------------------------------------------------------------
(* update_to_latest up to the start of the provider thread *)

\* line 55: the query of ranges(client) raises; nothing is in a try yet
RangesFails ==
    /\ pc = "start"
    /\ pc' = "raised"
    /\ UNCHANGED <<planVars, pipeVars, in_try>>
    /\ UNCHANGED newsVars

\* lines 48-67: the clock is read at line 53 and again at line 63, after the
\* store's ranges were read
Reconcile ==
    /\ pc = "start"
    /\ \E order \in Orders(DOMAIN ranges(store)) :
         LET scan == ScanRanges(order, ranges(store), new_symbols, <<>>,
                                now, skip_if_older_than)
         IN \E cold \in Orders(scan.ns) :
              /\ new_symbols' = scan.ns
              /\ filters' = ScanNew(cold, scan.fs,
                                    ColdStartBgnPrd(now_cold, time_delta_back))
    /\ pc' = "planned"
    /\ UNCHANGED <<store, arg_new_symbols, now, now_cold, time_delta_back,
                   skip_if_older_than, pipeVars, in_try>>
    /\ UNCHANGED newsVars

---------------------------------------------------------------------------
(* Payloads: None, or a DataFrame given by its row count, its column names *)
(* and the value of its interval column (<<>> while it has none)           *)

NoPayload == [none |-> TRUE, rows |-> 0, cols |-> {}, interval |-> <<>>]

Frame(rows, cols) ==
    [none |-> FALSE, rows |-> rows, cols |-> cols, interval |-> <<>>]

BarCols == {"timestamp", "symbol", "close"}

\* what a provider may hand over: nothing, an empty frame, bars, and bars
\* that lack the timestamp column
Payloads == { NoPayload, Frame(0, BarCols), Frame(1, BarCols),
              Frame(1, BarCols \ {"timestamp"}) }

\* the queue's sentinel
Sentinel == <<>>

Item(ft, to_cache) == <<ft, to_cache>>

\* a queue that hands out its newest item first
GetNewest(queue) ==
    [item |-> queue[Len(queue)], rest |-> SubSeq(queue, 1, Len(queue) - 1)]

\* q.get() of a queue.Queue: the oldest item, and what stays queued
Get(queue) == [item |-> Head(queue), rest |-> Tail(queue)]

\* iter(q.get, None) of line 74 stops at the first None
IsSentinel(x) == x = Sentinel

\* a loop that does not stop at None
AfterGetGoesOn(x) == "drain"

\* line 74: the loop ends when q.get returns None, and goes on otherwise
AfterGet(x) == IF IsSentinel(x) THEN "done" ELSE "drain"

\* line 77
HasData(to_cache) == ~to_cache.none /\ to_cache.rows > 0

\* line 78: DataFrame.drop('timestamp', axis=1) raises KeyError without it
DropRaises(to_cache) == "timestamp" \notin to_cache.cols

\* lines 78-79
Normalize(ft, to_cache) ==
    [to_cache EXCEPT !.cols = (@ \ {"timestamp"}) \cup {"interval"},
                     !.interval = <<ft.interval_len, ft.interval_type>>]

\* line 77-79: what reaches line 81
Prepared(ft, to_cache) ==
    IF HasData(to_cache) THEN Normalize(ft, to_cache) ELSE to_cache

\* line 82: one call of client.write_points, appended to the call log
WritePoints(log, ft, data, ok) ==
    Append(log, [ft |-> ft, data |-> data, ok |-> ok])

\* a loop without the except clause: a failed write leaves it
AfterWriteStops(ok) == IF ok THEN "report" ELSE "raised"

\* lines 83-84: the except clause logs and the loop goes on to line 86
AfterWrite(ok) == "report"

\* line 86
ShouldReport(idx, plan) ==
    idx > 0 /\ (idx % ReportEvery = 0 \/ idx = Len(plan))

\* a run without the finally clause
CloseSkipped(n) == n

\* lines 88-89
Close(n) == n + 1

\* a queue without a capacity
CanPutAlways(queue) == TRUE

\* queue.Queue(maxsize).put blocks while the queue is full
CanPut(queue) == Len(queue) < Maxsize

---------------------------------------------------------------------------
(* update_to_latest from the start of the provider thread on *)

\* lines 69-73
StartThread ==
    /\ pc = "planned"
    /\ pc' = "drain"
    /\ in_try' = TRUE
    /\ ppc' = "run"
    /\ UNCHANGED <<planVars, q, pidx, extra, sent, drained, i, written,
                   logged, closed>>
    /\ UNCHANGED newsVars

\* lines 74-75: q.get returns an item that is not the sentinel; the queue has
\* a free place from here on, while the item is being written
GetItem ==
    /\ pc = "drain"
    /\ q # <<>>
    /\ ~IsSentinel(Get(q).item)
    /\ drained' = Append(drained, Get(q).item)
    /\ q' = Get(q).rest
    /\ pc' = "got"
    /\ UNCHANGED <<planVars, in_try, ppc, pidx, extra, sent, i, written,
                   logged, closed>>
    /\ UNCHANGED newsVars

\* the item q.get returned last
InHand == drained[Len(drained)]

\* lines 77-84: the item in hand is prepared and client.write_points returns
\* or raises
WriteItem ==
    /\ pc = "got"
    /\ LET ft == InHand[1]
           to_cache == InHand[2]
       IN /\ ~(HasData(to_cache) /\ DropRaises(to_cache))
          /\ \E ok \in BOOLEAN :
               /\ written' = WritePoints(written, ft, Prepared(ft, to_cache), ok)
               /\ pc' = AfterWrite(ok)
               /\ closed' = IF AfterWrite(ok) = "report" THEN closed
                            ELSE Close(closed)
    /\ UNCHANGED <<planVars, in_try, q, ppc, pidx, extra, sent, drained, i,
                   logged>>
    /\ UNCHANGED newsVars

\* lines 86-87: the progress report, then back to q.get with the next index
ReportItem ==
    /\ pc = "report"
    /\ logged' = IF ShouldReport(i, filters) THEN Append(logged, i) ELSE logged
    /\ i' = i + 1
    /\ pc' = "drain"
    /\ UNCHANGED <<planVars, in_try, q, ppc, pidx, extra, sent, drained,
                   written, closed>>
    /\ UNCHANGED newsVars

\* lines 77-78 and 88-89: the drop raises, the finally clause closes
DrainRaises ==
    /\ pc = "got"
    /\ HasData(InHand[2]) /\ DropRaises(InHand[2])
    /\ closed' = Close(closed)
    /\ pc' = "raised"
    /\ UNCHANGED <<planVars, in_try, q, ppc, pidx, extra, sent, drained, i,
                   written, logged>>
    /\ UNCHANGED newsVars

\* lines 74 and 88-89: q.get returns None, the loop ends, the finally closes
DrainSentinel ==
    /\ pc = "drain"
    /\ q # <<>>
    /\ IsSentinel(Get(q).item)
    /\ drained' = Append(drained, Get(q).item)
    /\ q' = Get(q).rest
    /\ pc' = AfterGet(Get(q).item)
    /\ closed' = IF AfterGet(Get(q).item) = "drain" THEN closed
                 ELSE Close(closed)
    /\ UNCHANGED <<planVars, in_try, ppc, pidx, extra, sent, i, written, logged>>
    /\ UNCHANGED newsVars

---------------------------------------------------------------------------
(* The provider thread of line 71: noncache_provider(filters=filters, q=q) *)

\* the provider puts the result of the next request
ProviderPut ==
    /\ ppc = "run"
    /\ pidx < Len(filters)
    /\ CanPut(q)
    /\ \E to_cache \in Payloads :
         /\ q' = Append(q, Item(filters[pidx + 1], to_cache))
         /\ sent' = Append(sent, Item(filters[pidx + 1], to_cache))
    /\ pidx' = pidx + 1
    /\ UNCHANGED <<planVars, pc, in_try, ppc, extra, drained, i, written,
                   logged, closed>>
    /\ UNCHANGED newsVars

\* the provider has gone through the plan and puts None
ProviderSentinel ==
    /\ ppc = "run"
    /\ pidx = Len(filters)
    /\ CanPut(q)
    /\ q' = Append(q, Sentinel)
    /\ sent' = Append(sent, Sentinel)
    /\ ppc' = "finished"
    /\ UNCHANGED <<planVars, pc, in_try, pidx, extra, drained, i, written,
                   logged, closed>>
    /\ UNCHANGED newsVars

\* a provider that goes on putting results after its None
ProviderExtra ==
    /\ ppc = "finished"
    /\ extra < MaxExtra
    /\ Len(filters) > 0
    /\ CanPut(q)
    /\ \E to_cache \in Payloads :
         /\ q' = Append(q, Item(filters[1], to_cache))
         /\ sent' = Append(sent, Item(filters[1], to_cache))
    /\ extra' = extra + 1
    /\ UNCHANGED <<planVars, pc, in_try, ppc, pidx, drained, i, written,
                   logged, closed>>
    /\ UNCHANGED newsVars

\* the provider raises: its thread ends and no None is ever put
ProviderDies ==
    /\ ppc = "run"
    /\ ppc' = "dead"
    /\ UNCHANGED <<planVars, pc, in_try, q, pidx, extra, sent, drained, i,
                   written, logged, closed>>
    /\ UNCHANGED newsVars

---------------------------------------------------------------------------
(* Specifications *)

\* no listener is in use
NewsOff ==
    /\ minibatch = <<>>
    /\ attach_text = FALSE
    /\ column_mode = TRUE
    /\ mixed = FALSE
    /\ conn = "none"
    /\ is_running = FALSE
    /\ xpc = "off"
    /\ npc = "off"
    /\ taken = 0
    /\ headlines = <<>>
    /\ hidx = 0
    /\ ids = <<>>
    /\ titles = <<>>
    /\ heap = <<>>
    /\ processed_data = 0
    /\ current_minibatch = 0
    /\ events = <<>>
    /\ kept = <<>>
    /\ late_call = FALSE

PipeInit ==
    /\ NewsOff
    /\ filters = <<>>
    /\ pc = "start"
    /\ in_try = FALSE
    /\ q = <<>>
    /\ ppc = "idle"
    /\ pidx = 0
    /\ extra = 0
    /\ sent = <<>>
    /\ drained = <<>>
    /\ i = 0
    /\ written = <<>>
    /\ logged = <<>>
    /\ closed = 0

\* the stores: every series starts at tick 0 and ends at any tick
Stores == UNION { [D -> {<<0, t>> : t \in Times}] : D \in SUBSET Keys }

\* the calls of the fetch plan: any store, any desired set, the clock at one
\* of the last two ticks at line 53 and at the same tick or the next one at
\* line 63, any lookback, any threshold
InitPlan ==
    /\ store \in Stores
    /\ arg_new_symbols \in SUBSET Keys
    /\ new_symbols = arg_new_symbols
    /\ now \in {MaxTime - 1, MaxTime}
    /\ now_cold \in {now, now + 1}
    /\ time_delta_back \in Deltas
    /\ skip_if_older_than \in {None} \cup { <<d>> : d \in Deltas }
    /\ PipeInit

NextPlan == Reconcile \/ RangesFails

SpecPlan == InitPlan /\ [][NextPlan]_vars

\* the runs of the pipeline: stores whose series all end at the same tick,
\* and a caller that asks for no new series
Init ==
    /\ store \in UNION { [D -> {<<0, MaxTime - 1>>}] : D \in SUBSET Keys }
    /\ arg_new_symbols = {}
    /\ new_symbols = arg_new_symbols
    /\ now = MaxTime
    /\ now_cold = MaxTime
    /\ time_delta_back = MaxDelta
    /\ skip_if_older_than = None
    /\ PipeInit

Consume == GetItem \/ WriteItem \/ ReportItem \/ DrainRaises \/ DrainSentinel

Produce == ProviderPut \/ ProviderSentinel \/ ProviderExtra

Next ==
    \/ RangesFails
    \/ Reconcile
    \/ StartThread
    \/ GetItem
    \/ WriteItem
    \/ ReportItem
    \/ DrainRaises
    \/ DrainSentinel
    \/ ProviderPut
    \/ ProviderSentinel
    \/ ProviderExtra
    \/ ProviderDies

Spec == Init /\ [][Next]_vars

\* both threads are scheduled as long as they can take a step
FairSpec == Spec /\ WF_vars(Consume) /\ WF_vars(Produce)

---------------------------------------------------------------------------
(* Properties of the fetch plan, checked under SpecPlan *)

\* the positions of the plan that hold a request for key k
Requests(k) == { j \in 1 .. Len(filters) : KeyOf(filters[j]) = k }

Known == DOMAIN store

Planned == pc = "planned"

\* C1, as stated: with no staleness threshold, every series the store
\* reports with range (f, l) gets exactly one request, beginning at midnight
\* of the day after l.
C1_ContinuationFromNextDay ==
    (Planned /\ skip_if_older_than = None) =>
        \A k \in Known :
            /\ Cardinality(Requests(k)) = 1
            /\ \A j \in Requests(k) :
                 /\ filters[j].bgn_prd.date = Date(store[k][2]) + 1
                 /\ filters[j].bgn_prd.tick = 0

\* C1, amended: with no staleness threshold, every series the store reports
\* with range (f, l) gets exactly one request, beginning at midnight of the
\* day of l itself (the date of l, stamped US/Eastern).
C1_ContinuationFromLastDay ==
    (Planned /\ skip_if_older_than = None) =>
        \A k \in Known :
            /\ Cardinality(Requests(k)) = 1
            /\ \A j \in Requests(k) :
                 filters[j].bgn_prd = Midnight(Date(store[k][2]), Eastern)

\* a plan without threshold holding the request of a series whose last bar
\* is neither at midnight nor on the day of its first bar
C1_Witness ==
    /\ Planned
    /\ skip_if_older_than = None
    /\ \E k \in Known :
         /\ store[k][2] % TicksPerDay # 0
         /\ Date(store[k][2]) # Date(store[k][1])
         /\ Requests(k) # {}

\* the keys that are desired and not in the store
Missing == arg_new_symbols \ Known

\* C2, as stated: every desired key absent from the store gets exactly one
\* request, beginning at midnight of the day of (now - lookback), now being
\* the clock when the cold starts are planned; no key outside the desired
\* set gets a cold-start request.
C2_ColdStartFromNow ==
    Planned =>
        /\ \A k \in Missing :
             /\ Cardinality(Requests(k)) = 1
             /\ \A j \in Requests(k) :
                  filters[j].bgn_prd.date = Date(now_cold - time_delta_back)
        /\ \A j \in 1 .. Len(filters) :
             KeyOf(filters[j]) \notin Known =>
                 KeyOf(filters[j]) \in arg_new_symbols

\* C2, amended: every desired key absent from the store gets exactly one
\* request, beginning at midnight of the day of (midnight of the day of now,
\* less the lookback), now being the clock as line 63 reads it, after the
\* store's ranges were read; this is the day of (now - lookback) whenever
\* the lookback is a whole number of days; no key outside the desired set
\* gets a cold-start request.
C2_ColdStartFromToday ==
    Planned =>
        /\ \A k \in Missing :
             /\ Cardinality(Requests(k)) = 1
             /\ \A j \in Requests(k) :
                  /\ filters[j].bgn_prd =
                        Midnight(Date(Date(now_cold) * TicksPerDay
                                      - time_delta_back), Eastern)
                  /\ time_delta_back % TicksPerDay = 0 =>
                        filters[j].bgn_prd.date = Date(now_cold - time_delta_back)
        /\ \A j \in 1 .. Len(filters) :
             KeyOf(filters[j]) \notin Known =>
                 KeyOf(filters[j]) \in arg_new_symbols

\* a plan with a cold start, made after midnight with a lookback that is not
\* a whole number of days, next to a key that is neither known nor desired
C2_Witness ==
    /\ Planned
    /\ \E k \in Missing : Requests(k) # {}
    /\ now_cold % TicksPerDay # 0
    /\ time_delta_back % TicksPerDay # 0
    /\ Keys \ (Known \cup arg_new_symbols) # {}

\* the known series the plan continues
Continued == { k \in Known :
                 skip_if_older_than = None
                 \/ store[k][2] > now - skip_if_older_than[1] }

\* C3: no series key appears in more than one request of the plan; a key in
\* the store and in the desired set is taken out of the desired set before
\* the cold starts, so the plan has one request per continued series and one
\* per missing key, and nothing else.
C3_OneRequestPerKey ==
    Planned =>
        /\ \A k \in Keys : Cardinality(Requests(k)) <= 1
        /\ new_symbols \cap Known = {}
        /\ Len(filters) = Cardinality(Continued) + Cardinality(Missing)

\* a plan for a desired set that shares a continued key with the store
C3_Witness ==
    /\ Planned
    /\ \E k \in Known \cap arg_new_symbols : Requests(k) # {}
    /\ skip_if_older_than # None

\* C4, as stated: with a threshold T, a known series gets no request exactly
\* when now - last > T; at now - last = T it gets one.
C4_SkippedWhenOlder ==
    (Planned /\ skip_if_older_than # None) =>
        \A k \in Known :
            (Requests(k) = {}) <=> (now - store[k][2] > skip_if_older_than[1])

---------------------------------------------------------------------------
(* Properties of the pipeline, checked under Spec and FairSpec *)

\* the position of the first None put on the queue (0 when none was put)
FirstNone ==
    IF \E p \in 1 .. Len(sent) : IsSentinel(sent[p])
    THEN CHOOSE p \in 1 .. Len(sent) :
            /\ IsSentinel(sent[p])
            /\ \A r \in 1 .. (p - 1) : ~IsSentinel(sent[r])
    ELSE 0

\* a payload with rows and with the timestamp column that line 78 drops
BarsPayload(to_cache) ==
    ~to_cache.none /\ to_cache.rows > 0 /\ "timestamp" \in to_cache.cols

\* C5: when the provider has put N results with bars and then None, the
\* drain loop ends having called write_points exactly N times, once per
\* result and in the order the results were put, whatever the interleaving
\* of the two threads.
C5_OneWritePerResult ==
    (/\ pc = "done"
     /\ \A j \in 1 .. (FirstNone - 1) : BarsPayload(sent[j][2])) =>
        /\ Len(written) = FirstNone - 1
        /\ \A j \in 1 .. Len(written) :
             /\ written[j].ft = sent[j][1]
             /\ written[j].data.rows = sent[j][2].rows
             /\ written[j].data.interval =
                   <<sent[j][1].interval_len, sent[j][1].interval_type>>

\* a finished run of three results with bars, whose third result had to
\* wait for a place in the queue
C5_Witness ==
    /\ pc = "done"
    /\ FirstNone = 4
    /\ \A j \in 1 .. 3 : BarsPayload(sent[j][2])
    /\ Len(written) = 3

\* C6: a write_points that raises is caught and the loop goes on: the loop
\* is left by an exception only when the drop of line 78 raises, and a run
\* that ends at None has called write_points for every drained result,
\* those after a failed call included.
C6_FailedWriteIsolated ==
    /\ (pc = "raised" /\ in_try) =>
          /\ drained # <<>>
          /\ HasData(drained[Len(drained)][2])
          /\ DropRaises(drained[Len(drained)][2])
    /\ pc = "done" =>
          /\ Len(written) = Len(drained) - 1
          /\ \A j \in 1 .. Len(written) : written[j].ft = drained[j][1]

\* a finished run in which the first write failed and two more followed
C6_Witness ==
    /\ pc = "done"
    /\ Len(written) = 3
    /\ ~written[1].ok
    /\ written[3].ok

\* C7, as stated: on every exit of update_to_latest, by its end or by an
\* exception raised anywhere in it, client.close() has been called exactly
\* once.
C7_ClosedOnEveryExit ==
    pc \in {"done", "raised"} => closed = 1

\* C7, amended: client.close() is called exactly once on every exit that
\* comes after the drain loop was entered (its end at None, or an exception
\* escaping it), and not at all when an exception is raised before it,
\* while the store's ranges are read or the plan is built; it is never
\* called more than once nor before the exit.
C7_ClosedOnExitOfLoop ==
    /\ pc = "done" => closed = 1
    /\ (pc = "raised" /\ in_try) => closed = 1
    /\ (pc = "raised" /\ ~in_try) => closed = 0
    /\ pc \notin {"done", "raised"} => closed = 0

\* an exception that escaped the drain loop after a write, the client closed
C7_Witness ==
    /\ pc = "raised"
    /\ in_try
    /\ written # <<>>
    /\ closed = 1

\* C8: the queue never holds more than its capacity; while it is full the
\* provider cannot put; and every item put is either drained or still
\* queued, in the order of the puts, none dropped and none twice.
C8_BoundedQueue ==
    /\ Len(q) <= Maxsize
    /\ Len(q) = Maxsize => ~ENABLED Produce
    /\ sent = drained \o q

\* the provider waiting with a result while the queue is full
C8_Witness ==
    /\ Len(q) = Maxsize
    /\ ppc = "run"
    /\ pidx < Len(filters)
    /\ pidx = Maxsize
    /\ drained = <<>>

\* the run of update_to_latest is over
Terminated == pc \in {"done", "raised"}

\* C9: once the provider has put its None, update_to_latest terminates; it
\* ends normally only by draining that None, having drained and handed to
\* write_points every item put before it, in order, and none put after it.
C9_DrainsUntilNone ==
    /\ [](pc = "done" =>
            /\ FirstNone > 0
            /\ drained = SubSeq(sent, 1, FirstNone)
            /\ Len(written) = FirstNone - 1
            /\ \A j \in 1 .. Len(written) : written[j].ft = sent[j][1])
    /\ ((ppc = "finished") ~> Terminated)

\* a finished run that left in the queue an item put after None
C9_Witness ==
    /\ pc = "done"
    /\ FirstNone = 3
    /\ Len(sent) = 4
    /\ Len(q) = 1
    /\ Len(written) = 2

\* C10, as stated: write_points is called for a drained item only when its
\* payload has rows, never for a payload that is None or empty.
C10_WriteOnlyData ==
    \A j \in 1 .. Len(written) : HasData(written[j].data)

\* C17, as stated: when a run has drained the results of all the n >= 1
\* requests of its plan and ended, a progress report has been issued, for
\* every n, a multiple of ReportEvery or not.
C17_ReportOnCompletion ==
    (pc = "done" /\ Len(filters) >= 1 /\ i = Len(filters)) => logged # <<>>

\* C18, as stated: once the plan is built, the caller's new_symbols set holds
\* exactly the keys it held when update_to_latest was called.
C18_DesiredSetUntouched ==
    Planned => new_symbols = arg_new_symbols

---------------------------------------------------------------------------
(* IQFeedNewsListener of atpy/data/iqfeed/iqfeed_news_provider.py          *)
(*                                                                         *)
(* A headline is a function from its field names to values. A buffer is an *)
(* object of the heap, known by its reference (its index, 0 for None): in  *)
(* column mode a function from keys to lists of values, in row mode a list *)
(* of headlines. An event is [type, ref, data]: the reference handed to    *)
(* the listeners and what the object held at that moment.                  *)

(* Bounds of the model *)

MaxRec == 2
MaxBatch == 2

(* Data *)

Ids == {"s1", "s2"}

Titles == {"a", "b"}

\* the filters self.filter_provider yields, in order
NewsFilters == <<"f1", "f2">>

\* self.key_suffix
KeySuffix == "_n"

\* the order of h.keys() and h.items(): the tuple's fields, then 'text'
FieldOrder == <<"story_id", "headline", "symbols", "text">>

\* a headline with all the fields of the tuple, and one without symbols
Headline(id, title) == [story_id |-> id, headline |-> title, symbols |-> "sym"]
ShortHeadline(id, title) == [story_id |-> id, headline |-> title]

\* what request_news_headlines may return: headlines of one field set with
\* any identity, or headlines of two identities with either field set
UniformFeed == { Headline(id, title) : id \in Ids, title \in Titles }
MixedFeed == { Headline("s1", "a"), ShortHeadline("s1", "a"),
               Headline("s2", "b"), ShortHeadline("s2", "b") }

Feed(mix) == IF mix THEN MixedFeed ELSE UniformFeed

\* the lists of at most n elements of S
RECURSIVE ListsUpTo(_, _)
ListsUpTo(S, n) ==
    IF n = 0 THEN {<<>>}
    ELSE LET shorter == ListsUpTo(S, n - 1)
         IN shorter \cup { Append(l, x) : l \in shorter, x \in S }

\* the value of request_news_story(story_id)
Story(id) == <<"story", id>>

\* f + self.key_suffix
Key(f) == <<f, KeySuffix>>

\* list(h.keys())
KeysOf(h) == SelectSeq(FieldOrder, LAMBDA f : f \in DOMAIN h)

\* line 220: h['text'] = ...
WithText(h) ==
    [f \in DOMAIN h \cup {"text"} |->
        IF f = "text" THEN Story(h.story_id) ELSE h[f]]

\* lines 224 and 227: {f + self.key_suffix: list() for f in h.keys()}
NewColumns(h) == [k \in { Key(f) : f \in DOMAIN h } |-> <<>>]

\* line 241: {k + self.key_suffix: v for k, v in h.items()}
Renamed(h) == [k \in { Key(f) : f \in DOMAIN h } |-> h[k[1]]]

\* a test that drops a headline only when both its id and its title were kept
IsNewPair(h, seen_ids, seen_titles) ==
    ~(\E j \in 1 .. Len(seen_ids) :
         seen_ids[j] = h.story_id /\ seen_titles[j] = h.headline)

\* line 215: h['story_id'] not in ids and h['headline'] not in titles
IsNew(h, seen_ids, seen_titles) ==
    /\ \A j \in 1 .. Len(seen_ids) : seen_ids[j] # h.story_id
    /\ \A j \in 1 .. Len(seen_titles) : seen_titles[j] # h.headline

\* lines 229-231 over the fields fs of h: each value goes to the minibatch
\* and then to the request's buffer; a key that a buffer lacks is a KeyError
RECURSIVE AppendColumns(_, _, _, _)
AppendColumns(fs, h, cm, pd) ==
    IF fs = <<>> THEN [cm |-> cm, pd |-> pd, err |-> FALSE]
    ELSE LET k == Key(Head(fs))
         IN IF k \notin DOMAIN cm THEN [cm |-> cm, pd |-> pd, err |-> TRUE]
            ELSE LET cm2 == [cm EXCEPT ![k] = Append(@, h[Head(fs)])]
                 IN IF k \notin DOMAIN pd
                    THEN [cm |-> cm2, pd |-> pd, err |-> TRUE]
                    ELSE AppendColumns(Tail(fs), h, cm2,
                                       [pd EXCEPT ![k] = Append(@, h[Head(fs)])])

\* list(self.current_minibatch.keys())[0]
FirstKey(cm) ==
    Key(SelectSeq(FieldOrder, LAMBDA f : Key(f) \in DOMAIN cm)[1])

\* a test that lets the buffer grow one headline past self.minibatch
IsFullLate(n, size) == size # None /\ n = size[1] + 1

\* lines 233 and 251: the buffer has reached self.minibatch
IsFull(n, size) == size # None /\ n = size[1]

\* a flush that empties the buffer object in place and keeps it
ClearedInPlace(content, column) ==
    IF column THEN [k \in DOMAIN content |-> <<>>] ELSE <<>>

\* lines 236 and 253: the flushed object is left as it is, the attribute is
\* bound to None or to a new list
AfterFlush(content, column) == content

\* an attribute that goes on naming the delivered object
StillBound(ref, fresh) == ref

\* lines 236 and 253: self.current_minibatch is made to name None, or a new
\* list, after the listeners have returned
Rebound(ref, fresh) == fresh

\* a request that starts with no minibatch buffer
DroppedAtRequest(ref) == 0

\* lines 205-212: a new request assigns ids, titles, headlines and
\* processed_data, and leaves self.current_minibatch naming what it named
CarriedOver(ref) == ref

\* an event as self.listeners receives it, with the request it came from
Event(type, ref, hp, req) ==
    [type |-> type, ref |-> ref,
     data |-> IF ref = 0 THEN None ELSE hp[ref], req |-> req]

\* lines 223-233: a kept headline h in column mode, from the heap hp and the
\* buffers' references pdr and cmr, up to the length test
ColumnAppend(h, hp, pdr, cmr, size) ==
    LET hp1 == IF pdr = 0 THEN Append(hp, NewColumns(h)) ELSE hp
        pd == IF pdr = 0 THEN Len(hp1) ELSE pdr
        hp2 == IF cmr = 0 THEN Append(hp1, NewColumns(h)) ELSE hp1
        cm == IF cmr = 0 THEN Len(hp2) ELSE cmr
        res == AppendColumns(KeysOf(h), h, hp2[cm], hp2[pd])
    IN [heap |-> [hp2 EXCEPT ![cm] = res.cm, ![pd] = res.pd],
        pd |-> pd,
        cm |-> cm,
        full |-> ~res.err /\ IsFull(Len(res.cm[FirstKey(res.cm)]), size),
        err |-> res.err]

\* lines 238-251: a kept headline h in row mode, up to the length test
RowAppend(h, hp, pdr, cmr, size) ==
    LET h2 == Renamed(h)
        hp1 == IF pdr = 0 THEN Append(hp, <<>>) ELSE hp
        pd == IF pdr = 0 THEN Len(hp1) ELSE pdr
        hp2 == [hp1 EXCEPT ![pd] = Append(@, h2)]
        hp3 == IF size # None /\ cmr = 0 THEN Append(hp2, <<>>) ELSE hp2
        cm == IF size # None /\ cmr = 0 THEN Len(hp3) ELSE cmr
        hp4 == IF size # None THEN [hp3 EXCEPT ![cm] = Append(@, h2)] ELSE hp3
    IN [heap |-> hp4,
        pd |-> pd,
        cm |-> cm,
        full |-> size # None /\ IsFull(Len(hp4[cm]), size),
        err |-> FALSE]

\* lines 222-233 and 238-251
AppendTo(h, hp, pdr, cmr, size, column) ==
    IF column THEN ColumnAppend(h, hp, pdr, cmr, size)
    ELSE RowAppend(h, hp, pdr, cmr, size)

\* a call on self.conn comes back: when the connection is disconnected by
\* then, before the call or during it, it may raise or return
CallOutcomes(c) == IF c = "disconnected" THEN BOOLEAN ELSE {TRUE}

\* a call is made on the connection c after its disconnect
Late(c) == c = "disconnected"

---------------------------------------------------------------------------
(* The caller: lines 174-191 *)

\* __enter__
Enter ==
    /\ xpc = "new"
    /\ conn' = "connected"
    /\ is_running' = TRUE
    /\ npc' = "next"
    /\ xpc' = "entered"
    /\ UNCHANGED <<cacheVars, minibatch, attach_text, column_mode, mixed,
                   taken, headlines, hidx, ids, titles, heap, processed_data,
                   current_minibatch, events, kept, late_call>>

\* __exit__, line 189
ExitDisconnect ==
    /\ xpc = "entered"
    /\ conn' = "disconnected"
    /\ xpc' = "exiting"
    /\ UNCHANGED <<cacheVars, minibatch, attach_text, column_mode, mixed,
                   is_running, npc, taken, headlines, hidx, ids, titles, heap,
                   processed_data, current_minibatch, events, kept,
                   late_call>>

\* __exit__, lines 190-191
ExitStop ==
    /\ xpc = "exiting"
    /\ is_running' = FALSE
    /\ xpc' = "exited"
    /\ UNCHANGED <<cacheVars, minibatch, attach_text, column_mode, mixed,
                   conn, npc, taken, headlines, hidx, ids, titles, heap,
                   processed_data, current_minibatch, events, kept,
                   late_call>>

---------------------------------------------------------------------------
(* The produce thread: lines 204-258 *)

\* lines 205-207: the next filter is taken, ids and titles are new lists;
\* headlines and processed_data are still those of the request before
TakeFilter ==
    /\ npc = "next"
    /\ taken < Len(NewsFilters)
    /\ taken' = taken + 1
    /\ ids' = <<>>
    /\ titles' = <<>>
    /\ hidx' = 0
    /\ kept' = Append(kept, <<>>)
    /\ current_minibatch' = CarriedOver(current_minibatch)
    /\ npc' = "call"
    /\ UNCHANGED <<cacheVars, minibatch, attach_text, column_mode, mixed,
                   conn, is_running, xpc, headlines, heap, processed_data,
                   events, late_call>>

\* line 209: self.conn.request_news_headlines is called, on the connection
\* as it is at that moment
RequestHeadlines ==
    /\ npc = "call"
    /\ late_call' = (late_call \/ Late(conn))
    /\ npc' = "wait"
    /\ UNCHANGED <<cacheVars, minibatch, attach_text, column_mode, mixed,
                   conn, is_running, xpc, taken, headlines, hidx, ids, titles,
                   heap, processed_data, current_minibatch, events, kept>>

\* lines 209-212: the request returns its headlines, or raises
HeadlinesReturn ==
    /\ npc = "wait"
    /\ \E ok \in CallOutcomes(conn) :
         IF ok
         THEN /\ headlines' \in ListsUpTo(Feed(mixed), MaxRec)
              /\ processed_data' = 0
              /\ npc' = "records"
         ELSE /\ npc' = "crashed"
              /\ UNCHANGED <<headlines, processed_data>>
    /\ UNCHANGED <<cacheVars, minibatch, attach_text, column_mode, mixed,
                   conn, is_running, xpc, taken, hidx, ids, titles, heap,
                   current_minibatch, events, kept, late_call>>

\* line 205: self.filter_provider has no more filters
LoopEnds ==
    /\ npc = "next"
    /\ taken = Len(NewsFilters)
    /\ npc' = "exit"
    /\ UNCHANGED <<cacheVars, minibatch, attach_text, column_mode, mixed,
                   conn, is_running, xpc, taken, headlines, hidx, ids, titles,
                   heap, processed_data, current_minibatch, events, kept,
                   late_call>>

\* lines 214-215: a headline whose id or title was kept before is passed over
SkipHeadline ==
    /\ npc = "records"
    /\ hidx < Len(headlines)
    /\ ~IsNew(headlines[hidx + 1], ids, titles)
    /\ hidx' = hidx + 1
    /\ UNCHANGED <<cacheVars, minibatch, attach_text, column_mode, mixed,
                   conn, is_running, xpc, npc, taken, headlines, ids, titles,
                   heap, processed_data, current_minibatch, events, kept,
                   late_call>>

\* the headline in hand, with its text once line 220 has returned
InHandHeadline ==
    IF attach_text THEN WithText(headlines[hidx + 1]) ELSE headlines[hidx + 1]

\* lines 214-219: a new headline; its id and title are noted
KeepHeadline ==
    /\ npc = "records"
    /\ hidx < Len(headlines)
    /\ IsNew(headlines[hidx + 1], ids, titles)
    /\ ids' = Append(ids, headlines[hidx + 1].story_id)
    /\ titles' = Append(titles, headlines[hidx + 1].headline)
    /\ npc' = IF attach_text THEN "story" ELSE "append"
    /\ UNCHANGED <<cacheVars, minibatch, attach_text, column_mode, mixed,
                   conn, is_running, xpc, taken, headlines, hidx, heap,
                   processed_data, current_minibatch, events, kept,
                   late_call>>

\* line 220: self.conn.request_news_story is called, on the connection as it
\* is at that moment
RequestStory ==
    /\ npc = "story"
    /\ late_call' = (late_call \/ Late(conn))
    /\ npc' = "story_wait"
    /\ UNCHANGED <<cacheVars, minibatch, attach_text, column_mode, mixed,
                   conn, is_running, xpc, taken, headlines, hidx, ids, titles,
                   heap, processed_data, current_minibatch, events, kept>>

\* line 220: the request returns the text, or raises
StoryReturns ==
    /\ npc = "story_wait"
    /\ \E ok \in CallOutcomes(conn) :
         npc' = IF ok THEN "append" ELSE "crashed"
    /\ UNCHANGED <<cacheVars, minibatch, attach_text, column_mode, mixed,
                   conn, is_running, xpc, taken, headlines, hidx, ids, titles,
                   heap, processed_data, current_minibatch, events, kept,
                   late_call>>

\* lines 222-234 and 238-252: the headline goes into the buffers; when the
\* minibatch is full it is handed to the listeners, and still is what
\* self.current_minibatch names
AppendHeadline ==
    /\ npc = "append"
    /\ LET res == AppendTo(InHandHeadline, heap, processed_data,
                           current_minibatch, minibatch, column_mode)
       IN /\ heap' = res.heap
          /\ processed_data' = res.pd
          /\ current_minibatch' = res.cm
          /\ IF res.err
             THEN /\ npc' = "crashed"
                  /\ UNCHANGED <<events, hidx, kept>>
             ELSE /\ kept' = [kept EXCEPT ![taken] = Append(@, InHandHeadline)]
                  /\ hidx' = hidx + 1
                  /\ events' = IF res.full
                               THEN Append(events,
                                           Event("news_minibatch", res.cm,
                                                 res.heap, taken))
                               ELSE events
                  /\ npc' = IF res.full THEN "flush" ELSE "records"
    /\ UNCHANGED <<cacheVars, minibatch, attach_text, column_mode, mixed,
                   conn, is_running, xpc, taken, headlines, ids, titles,
                   late_call>>

\* lines 236 and 253: the listeners have returned
Rebind ==
    /\ npc = "flush"
    /\ LET left == [heap EXCEPT ![current_minibatch] =
                                   AfterFlush(@, column_mode)]
       IN IF column_mode
          THEN /\ heap' = left
               /\ current_minibatch' = Rebound(current_minibatch, 0)
          ELSE /\ heap' = Append(left, <<>>)
               /\ current_minibatch' =
                     Rebound(current_minibatch, Len(left) + 1)
    /\ npc' = "records"
    /\ UNCHANGED <<cacheVars, minibatch, attach_text, column_mode, mixed,
                   conn, is_running, xpc, taken, headlines, hidx, ids, titles,
                   processed_data, events, kept, late_call>>

\* line 255: the request's batch is handed to the listeners
EmitBatch ==
    /\ npc = "records"
    /\ hidx = Len(headlines)
    /\ events' = Append(events, Event("news_batch", processed_data, heap, taken))
    /\ npc' = "emitted"
    /\ UNCHANGED <<cacheVars, minibatch, attach_text, column_mode, mixed,
                   conn, is_running, xpc, taken, headlines, hidx, ids, titles,
                   heap, processed_data, current_minibatch, kept, late_call>>

\* lines 257-258: the listeners have returned; self.is_running is read
CheckRunning ==
    /\ npc = "emitted"
    /\ npc' = IF is_running THEN "next" ELSE "exit"
    /\ UNCHANGED <<cacheVars, minibatch, attach_text, column_mode, mixed,
                   conn, is_running, xpc, taken, headlines, hidx, ids, titles,
                   heap, processed_data, current_minibatch, events, kept,
                   late_call>>

---------------------------------------------------------------------------
(* Specifications of the listener *)

\* update_to_latest is not in use
CacheOff ==
    /\ store = << >>
    /\ arg_new_symbols = {}
    /\ new_symbols = {}
    /\ now = 0
    /\ now_cold = 0
    /\ time_delta_back = 0
    /\ skip_if_older_than = None
    /\ filters = <<>>
    /\ pc = "off"
    /\ in_try = FALSE
    /\ q = <<>>
    /\ ppc = "off"
    /\ pidx = 0
    /\ extra = 0
    /\ sent = <<>>
    /\ drained = <<>>
    /\ i = 0
    /\ written = <<>>
    /\ logged = <<>>
    /\ closed = 0

\* lines 163-172: a listener of any minibatch size and mode; the feed's
\* headlines differ in their fields only for a listener in column mode that
\* attaches no text
InitNews ==
    /\ CacheOff
    /\ minibatch \in {None} \cup { <<n>> : n \in 1 .. MaxBatch }
    /\ attach_text \in BOOLEAN
    /\ column_mode \in BOOLEAN
    /\ mixed \in BOOLEAN
    /\ mixed => (column_mode /\ ~attach_text)
    /\ conn = "none"
    /\ is_running = FALSE
    /\ xpc = "new"
    /\ npc = "idle"
    /\ taken = 0
    /\ headlines = <<>>
    /\ hidx = 0
    /\ ids = <<>>
    /\ titles = <<>>
    /\ heap = <<>>
    /\ processed_data = 0
    /\ current_minibatch = 0
    /\ events = <<>>
    /\ kept = <<>>
    /\ late_call = FALSE

NextNews ==
    \/ Enter
    \/ ExitDisconnect
    \/ ExitStop
    \/ TakeFilter
    \/ RequestHeadlines
    \/ HeadlinesReturn
    \/ LoopEnds
    \/ SkipHeadline
    \/ KeepHeadline
    \/ RequestStory
    \/ StoryReturns
    \/ AppendHeadline
    \/ Rebind
    \/ EmitBatch
    \/ CheckRunning

SpecNews == InitNews /\ [][NextNews]_vars

---------------------------------------------------------------------------
(* Properties of the listener, checked under SpecNews *)

\* the headlines a buffer's content holds, in order
RowsOf(ref, data) ==
    IF ref = 0 THEN <<>>
    ELSE IF column_mode
         THEN [j \in 1 .. Len(data[FirstKey(data)]) |->
                  [k \in DOMAIN data |-> data[k][j]]]
         ELSE data

\* the headlines an event carried when it was delivered
Carried(e) == RowsOf(e.ref, e.data)

\* the headlines the object of reference ref holds now
Held(ref) == IF ref = 0 THEN <<>> ELSE RowsOf(ref, heap[ref])

\* the kept headlines of request r, as the buffers name their fields
KeptRows(r) == [j \in 1 .. Len(kept[r]) |-> Renamed(kept[r][j])]

\* the number of headlines kept in the requests before request r
RECURSIVE KeptBefore(_)
KeptBefore(r) == IF r <= 1 THEN 0 ELSE KeptBefore(r - 1) + Len(kept[r - 1])

\* the positions of the events of a type that came from request r
EventsOf(type, r) ==
    SelectSeq([j \in 1 .. Len(events) |-> j],
              LAMBDA j : events[j].type = type /\ events[j].req = r)

\* a minibatch size is set and all headlines have the same fields
Sized == minibatch # None /\ ~mixed

\* C11: with a minibatch size N and an empty minibatch at its start, a
\* request that keeps k headlines gives k div N news_minibatch events of N
\* headlines each, in arrival order, all before its one news_batch event,
\* which carries the k headlines, and leaves k mod N headlines in
\* current_minibatch; in column mode and in row mode.
C11_MinibatchesOfRequest ==
    \A r \in 1 .. taken :
        (/\ Sized
         /\ EventsOf("news_batch", r) # <<>>
         /\ KeptBefore(r) % minibatch[1] = 0) =>
            LET n == minibatch[1]
                k == Len(kept[r])
                mbs == EventsOf("news_minibatch", r)
                bs == EventsOf("news_batch", r)
            IN /\ Len(mbs) = k \div n
               /\ \A m \in 1 .. Len(mbs) :
                    /\ Carried(events[mbs[m]]) =
                          SubSeq(KeptRows(r), (m - 1) * n + 1, m * n)
                    /\ mbs[m] < bs[1]
               /\ Len(bs) = 1
               /\ Carried(events[bs[1]]) = KeptRows(r)
               /\ taken = r => Len(Held(current_minibatch)) = k % n

\* a first request that kept two headlines under a minibatch size of one:
\* two minibatches, then the batch
C11_Witness ==
    /\ Sized
    /\ minibatch = <<1>>
    /\ taken = 1
    /\ Len(kept[1]) = 2
    /\ Len(events) = 3
    /\ events[3].type = "news_batch"
    /\ current_minibatch = 0 \/ ~column_mode

\* a headline as request_news_headlines returned it
Plain(h) == [f \in DOMAIN h \ {"text"} |-> h[f]]

\* the headlines of the request in progress that the loop has gone through
Seen == SubSeq(headlines, 1, hidx)

\* the headlines of hs that share neither the id nor the title of an earlier
\* one that stays
RECURSIVE FirstByIdOrTitle(_)
FirstByIdOrTitle(hs) ==
    IF hs = <<>> THEN <<>>
    ELSE LET before == FirstByIdOrTitle(SubSeq(hs, 1, Len(hs) - 1))
             h == hs[Len(hs)]
         IN IF \E j \in 1 .. Len(before) :
                   \/ before[j].story_id = h.story_id
                   \/ before[j].headline = h.headline
            THEN before
            ELSE Append(before, h)

\* the headlines of hs whose pair of id and title no earlier one has
FirstByPair(hs) ==
    SelectSeq([j \in 1 .. Len(hs) |-> <<j, hs[j]>>],
              LAMBDA e : \A j \in 1 .. e[1] - 1 :
                           \/ hs[j].story_id # e[2].story_id
                           \/ hs[j].headline # e[2].headline)

\* the headlines a request has kept, as the feed returned them
KeptPlain(r) == [j \in 1 .. Len(kept[r]) |-> Plain(kept[r][j])]

\* C12 as stated: within a request a headline is dropped exactly when an
\* earlier one has the same story_id and the same headline; one that shares
\* only the id or only the title is kept.
C12_PairIdentity ==
    taken >= 1 =>
        LET first == FirstByPair(Seen)
        IN KeptPlain(taken) = [j \in 1 .. Len(first) |-> first[j][2]]

\* C12: within a request a headline is dropped exactly when an earlier kept
\* headline of the request has the same story_id or the same headline; the
\* kept ones, in order, are what the request's news_batch carries.
C12_IdOrTitleIdentity ==
    taken >= 1 =>
        /\ KeptPlain(taken) = FirstByIdOrTitle(Seen)
        /\ \A b \in 1 .. Len(events) :
             (/\ ~mixed
              /\ events[b].type = "news_batch"
              /\ events[b].req = taken) =>
                 LET first == FirstByIdOrTitle(headlines)
                 IN Carried(events[b]) =
                       [j \in 1 .. Len(first) |->
                           Renamed(IF attach_text THEN WithText(first[j])
                                   ELSE first[j])]

\* a batch delivered for a request whose second headline shared only the id
\* of the first and was dropped
C12_Witness ==
    /\ taken >= 1
    /\ Len(headlines) = 2
    /\ headlines[1].story_id = headlines[2].story_id
    /\ headlines[1].headline # headlines[2].headline
    /\ Len(kept[taken]) = 1
    /\ \E b \in 1 .. Len(events) :
         events[b].type = "news_batch" /\ events[b].req = taken

\* the number of headlines in the object of reference ref of the heap hp
CountIn(ref, hp) ==
    IF ref = 0 THEN 0
    ELSE IF column_mode THEN Len(hp[ref][FirstKey(hp[ref])])
    ELSE Len(hp[ref])

\* the produce thread goes on after the listeners returned from an event
\* of the given type
Resumes(type) ==
    /\ npc = (IF type = "news_minibatch" THEN "flush" ELSE "emitted")
    /\ npc' # npc

\* C13 as stated: when produce goes on after a news_minibatch event, and
\* when it goes on after a request's news_batch event, current_minibatch
\* holds no headlines.
C13_EmptyAfterEveryEvent ==
    [][(Resumes("news_minibatch") \/ Resumes("news_batch")) =>
          CountIn(current_minibatch', heap') = 0]_vars

\* C13: when produce goes on after a news_minibatch event, current_minibatch
\* holds no headlines, while during the delivery it still names the full
\* object handed over; a news_batch event leaves current_minibatch and what
\* it holds as they were, so the headlines left over stay in it.
C13_EmptyAfterMinibatchOnly ==
    [][/\ Resumes("news_minibatch") =>
             /\ CountIn(current_minibatch, heap) = minibatch[1]
             /\ current_minibatch = events[Len(events)].ref
             /\ CountIn(current_minibatch', heap') = 0
       /\ (\/ Resumes("news_batch")
           \/ Len(events') > Len(events)
              /\ events'[Len(events')].type = "news_batch") =>
             /\ current_minibatch' = current_minibatch
             /\ heap' = heap]_vars

\* after a minibatch was delivered, a batch has just been delivered and a
\* headline is still in current_minibatch
C13_Witness ==
    /\ Len(events) >= 2
    /\ events[Len(events)].type = "news_batch"
    /\ \E m \in 1 .. Len(events) : events[m].type = "news_minibatch"
    /\ npc \in {"next", "exit"}
    /\ CountIn(current_minibatch, heap) >= 1

\* the places of the produce thread inside a request
InRequest == {"call", "wait", "records", "story", "story_wait", "append",
              "flush", "emitted"}

\* C14: once is_running is set to false while a request is being processed,
\* every remaining headline of the request is still processed, the request's
\* news_batch is delivered before the loop exits, and no further filter is
\* taken.
C14_StopCompletesRequest ==
    [][(~is_running /\ xpc = "exited" /\ npc \in InRequest) =>
          /\ npc' \in InRequest \cup {"exit"}
          /\ taken' = taken
          /\ npc' = "exit" => EventsOf("news_batch", taken) # <<>>]_vars

\* C20: in every interleaving of __exit__ with the produce thread, no
\* request_news_headlines or request_news_story call is made on the
\* connection after __exit__ has disconnected it.
C20_NoCallAfterDisconnect == ~late_call

\* C15: the object an event handed to the listeners holds, at any later
\* time, what it held when the event was delivered: no later append, flush
\* or request changes it, in column mode and in row mode.
C15_PayloadNeverChanged ==
    \A j \in 1 .. Len(events) :
        events[j].ref # 0 => heap[events[j].ref] = events[j].data

\* a minibatch was delivered, and a later headline, of a later request, is
\* in current_minibatch
C15_Witness ==
    /\ Len(events) >= 2
    /\ events[1].type = "news_minibatch"
    /\ events[1].ref # 0
    /\ events[1].req < taken
    /\ CountIn(current_minibatch, heap) >= 1

\* C16: in column mode all columns of current_minibatch have the same length
\* at all times: a headline whose fields differ from the buffer's raises an
\* error, it is not appended leaving columns of different lengths.
C16_ColumnsOfOneLength ==
    (column_mode /\ current_minibatch # 0 /\ npc # "crashed") =>
        \A k1, k2 \in DOMAIN heap[current_minibatch] :
            Len(heap[current_minibatch][k1]) = Len(heap[current_minibatch][k2])

\* the headlines of the first n events of a type, one after the other
RECURSIVE Stream(_, _)
Stream(type, n) ==
    IF n = 0 THEN <<>>
    ELSE IF events[n].type = type
         THEN Stream(type, n - 1) \o Carried(events[n])
         ELSE Stream(type, n - 1)

\* the kept headlines of the request that has no news_batch yet
InProgress ==
    IF taken >= 1 /\ EventsOf("news_batch", taken) = <<>>
    THEN KeptRows(taken)
    ELSE <<>>

\* C19: with a minibatch size N, the headlines of all news_minibatch events
\* followed by those in current_minibatch are, in order, the headlines of
\* all news_batch events followed by the kept ones of the request in
\* progress: what a request leaves over goes into the next request's
\* minibatch, and current_minibatch holds fewer than N headlines once a
\* headline is dealt with (between the delivery of a full minibatch and
\* line 236 or 253 it still names the object delivered).
C19_MinibatchStreamComplete ==
    (Sized /\ npc # "flush") =>
        /\ Stream("news_minibatch", Len(events)) \o Held(current_minibatch) =
              Stream("news_batch", Len(events)) \o InProgress
        /\ CountIn(current_minibatch, heap) < minibatch[1]

\* a minibatch of the second request that begins with the headline the
\* first request left over, and a headline left over in turn
C19_Witness ==
    /\ Sized
    /\ taken = 2
    /\ Len(kept[1]) = 1
    /\ \E m \in 1 .. Len(events) :
         /\ events[m].type = "news_minibatch"
         /\ events[m].req = 2
         /\ Carried(events[m])[1] = KeptRows(1)[1]
    /\ CountIn(current_minibatch, heap) = 1

=============================================================================
